---- MODULE Spec2Model ----
(***************************************************************************)
(* RedisCacheService (apps/api/src/app/redis-cache/redis-cache.service.ts) *)
(* as a state machine: the key/value store behind the Keyv client, the     *)
(* service's data-path operations, its key scan with bulk invalidation and *)
(* its timer-raced health check.                                           *)
(*                                                                         *)
(* Time is the wall clock in milliseconds.  A store entry carries the      *)
(* instant at which it expires; an expired entry is invisible to get and   *)
(* to the key iterator whether or not it is still physically held.         *)
(***************************************************************************)
EXTENDS Integers, Sequences, FiniteSets, TLC

VARIABLES
  store,   \* the external store: a function from the keys it holds to entries
  now,     \* Date.now(), in milliseconds
  last,    \* what the caller of the last finished operation observed
  wrote,   \* per key, the last write that touched it (history)
  ops,     \* writes and scans started so far
  scan,    \* the one getKeys / removePortfolioSnapshotsByUserId call in progress
  hc       \* the isHealthy() calls, by call id

vars == <<store, now, last, wrote, ops, scan, hc>>

(***************************************************************************)
(* Bounds of the model.                                                    *)
(***************************************************************************)
MaxTicks == 3          \* the clock stops after this many ticks
MaxHealthCalls == 2    \* isHealthy() call slots
MaxOps == 2            \* writes and scans started per run

(***************************************************************************)
(* Program constants.                                                      *)
(***************************************************************************)
HealthTtl == 1000      \* ms('1 second'), the sentinel's ttl
HealthTimeout == 2000  \* ms('2 seconds'), the timer of the race
CACHE_TTL == 2000      \* configurationService.get('CACHE_TTL')
testKey == "__health_check__"

TickMs == HealthTtl                  \* the clock's granularity

(***************************************************************************)
(* Strings.                                                                *)
(***************************************************************************)
\* String.prototype.startsWith
StartsWith(s, p) == Len(p) <= Len(s) /\ SubSeq(s, 1, Len(p)) = p

\* JavaScript values: a string, a number, an array, and the value undefined
Str(s) == [type |-> "string", value |-> s]
Num(n) == [type |-> "number", value |-> n]
Arr(items) == [type |-> "array", items |-> items]
Undefined == [type |-> "undefined"]

\* a prefix argument is falsy when omitted or the empty string
Truthy(p) == p # Undefined /\ p # Str("")

(***************************************************************************)
(* Key derivation.                                                         *)
(***************************************************************************)
UserIds == {"u1", "u12", "u2"}
\* a filter object: its properties in the order they were written
Filter(id, type) == <<<<"id", id>>, <<"type", type>>>>
FilterA == Filter("a", "TAG")
FilterB == Filter("b", "ACCOUNT")
\* the filter FilterA written with its properties the other way round
FilterATypeFirst == <<<<"type", "TAG">>, <<"id", "a">>>>
\* the filter arguments tried: omitted, empty, and short sequences of filters
FilterArgs ==
  {Undefined, Arr(<<>>), Arr(<<FilterA>>), Arr(<<FilterATypeFirst>>),
   Arr(<<FilterA, FilterB>>), Arr(<<FilterB, FilterA>>)}

\* JSON.stringify of one filter object (its properties in their order) and of
\* an array of them
RECURSIVE JsonProps(_)
JsonProps(ps) ==
  IF Len(ps) = 0 THEN ""
  ELSE "\"" \o ps[1][1] \o "\":\"" \o ps[1][2] \o "\""
       \o (IF Len(ps) = 1 THEN "" ELSE "," \o JsonProps(Tail(ps)))
JsonFilter(f) == "{" \o JsonProps(f) \o "}"
RECURSIVE JsonItems(_)
JsonItems(fs) ==
  IF Len(fs) = 0 THEN ""
  ELSE IF Len(fs) = 1 THEN JsonFilter(fs[1])
  ELSE JsonFilter(fs[1]) \o "," \o JsonItems(Tail(fs))
JsonStringify(fs) == "[" \o JsonItems(fs) \o "]"

\* createHash('sha256').update(s).digest('hex'): the digest is kept symbolic,
\* a collision-free function of the bytes hashed
Sha256Hex(s) == "sha256<" \o s \o ">"

\* the key derived from the filters put into one fixed order first
getPortfolioSnapshotKeySorted(filters, userId) ==
  LET portfolioSnapshotKey == "portfolio-snapshot-" \o userId
      Sorted(fs) == CHOOSE s \in [1..Len(fs) -> {fs[i] : i \in 1..Len(fs)}] :
                      {s[i] : i \in 1..Len(fs)} = {fs[i] : i \in 1..Len(fs)}
  IN
  IF filters # Undefined /\ Len(filters.items) > 0
  THEN portfolioSnapshotKey \o "-" \o Sha256Hex(JsonStringify(Sorted(filters.items)))
  ELSE portfolioSnapshotKey

\* public getPortfolioSnapshotKey({ filters, userId })
getPortfolioSnapshotKey(filters, userId) ==
  LET portfolioSnapshotKey == "portfolio-snapshot-" \o userId IN
  IF filters # Undefined /\ Len(filters.items) > 0
  THEN portfolioSnapshotKey \o "-" \o Sha256Hex(JsonStringify(filters.items))
  ELSE portfolioSnapshotKey

\* getAssetProfileIdentifier of @ghostfolio/common/helper
getAssetProfileIdentifier(dataSource, symbol) == dataSource \o ":" \o symbol

\* the quote key with symbol and data source the other way round
getQuoteKeySwapped(dataSource, symbol) ==
  "quote-" \o getAssetProfileIdentifier(symbol, dataSource)

\* public getQuoteKey({ dataSource, symbol })
getQuoteKey(dataSource, symbol) ==
  "quote-" \o getAssetProfileIdentifier(dataSource, symbol)

(***************************************************************************)
(* The store behind this.client (Keyv): entries with an optional expiry.   *)
(***************************************************************************)
\* Keyv keeps no expiry for a ttl of 0 or a missing ttl
NewEntry(value, ttl, t) ==
  IF ttl = Undefined \/ ttl = Num(0) THEN [value |-> value]
  ELSE [value |-> value, expires |-> t + ttl.value]
Expired(e, t) == "expires" \in DOMAIN e /\ t > e.expires
\* the keys get and the iterator can see at time t
Live(st, t) == {k \in DOMAIN st : ~Expired(st[k], t)}
Without(st, ks) == [k \in DOMAIN st \ ks |-> st[k]]
With(st, key, e) == [k \in DOMAIN st \cup {key} |-> IF k = key THEN e ELSE st[k]]

StoreGet(st, key, t) == IF key \in Live(st, t) THEN Str(st[key].value) ELSE Undefined
StoreSet(st, key, value, ttl, t) == With(st, key, NewEntry(value, ttl, t))
StoreDelete(st, key) == Without(st, {key})
StoreDeleteMany(st, keys) == Without(st, {keys[i] : i \in DOMAIN keys})
StoreClear(st) == Without(st, DOMAIN st)

\* how the store answers one call: it performs it, or raises a connectivity failure
Outcomes == {"ok", "fail"}
ConnectivityFailure == [type |-> "error", message |-> "connectivity failure"]

(***************************************************************************)
(* The service's data-path operations.  Each takes the store, the clock    *)
(* and the store's answers to the calls the operation makes (outs[i]       *)
(* answers the i-th call), and gives the store afterwards, the store calls *)
(* issued, and what the caller gets: a result, or a raised failure.        *)
(***************************************************************************)
Reply(st, calls, raised, result) ==
  [store |-> st, calls |-> calls, raised |-> raised, result |-> result]

\* get with one retry after a failed store call
getRetry(st, key, t, outs) ==
  IF outs[1] = "fail"
  THEN IF outs[2] = "fail"
       THEN Reply(st, <<"get", "get">>, TRUE, ConnectivityFailure)
       ELSE Reply(st, <<"get", "get">>, FALSE, StoreGet(st, key, t))
  ELSE Reply(st, <<"get">>, FALSE, StoreGet(st, key, t))

\* get that reads whatever entry the store still holds, expired or not
getHeld(st, key, t, outs) ==
  IF outs[1] = "fail"
  THEN Reply(st, <<"get">>, TRUE, ConnectivityFailure)
  ELSE Reply(st, <<"get">>, FALSE,
             IF key \in DOMAIN st THEN Str(st[key].value) ELSE Undefined)

\* public async get(key)
get(st, key, t, outs) ==
  IF outs[1] = "fail"
  THEN Reply(st, <<"get">>, TRUE, ConnectivityFailure)
  ELSE Reply(st, <<"get">>, FALSE, StoreGet(st, key, t))

\* set that leaves an entry already held as it is
setIfAbsent(st, key, value, ttl, t, outs) ==
  IF outs[1] = "fail"
  THEN Reply(st, <<"set">>, TRUE, ConnectivityFailure)
  ELSE IF key \in DOMAIN st THEN Reply(st, <<"set">>, FALSE, TRUE)
  ELSE Reply(With(st, key, NewEntry(value, ttl, t)), <<"set">>, FALSE, TRUE)

\* the default ttl taken for seconds where the store counts milliseconds
setTtlSeconds(ttl) == IF ttl = Undefined THEN Num(CACHE_TTL \div 1000) ELSE ttl

\* the default injected with || where the code has ??: a ttl of 0 is replaced too
setTtlOr(ttl) == IF ttl = Undefined \/ ttl = Num(0) THEN Num(CACHE_TTL) ELSE ttl

\* public async set(key, value, ttl?)
setTtl(ttl) == IF ttl = Undefined THEN Num(CACHE_TTL) ELSE ttl
set(st, key, value, ttl, t, outs) ==
  IF outs[1] = "fail"
  THEN Reply(st, <<"set">>, TRUE, ConnectivityFailure)
  ELSE Reply(StoreSet(st, key, value, setTtl(ttl), t), <<"set">>, FALSE, TRUE)

\* remove that raises when there is no entry to delete
removeStrict(st, key, t, outs) ==
  IF outs[1] = "fail" \/ key \notin Live(st, t)
  THEN Reply(st, <<"delete">>, TRUE, ConnectivityFailure)
  ELSE Reply(StoreDelete(st, key), <<"delete">>, FALSE, TRUE)

\* public async remove(key)
remove(st, key, t, outs) ==
  IF outs[1] = "fail"
  THEN Reply(st, <<"delete">>, TRUE, ConnectivityFailure)
  ELSE Reply(StoreDelete(st, key), <<"delete">>, FALSE, key \in Live(st, t))

\* reset that clears the portfolio snapshot namespace only
resetNamespace(st, outs) ==
  IF outs[1] = "fail"
  THEN Reply(st, <<"clear">>, TRUE, ConnectivityFailure)
  ELSE Reply(Without(st, {k \in DOMAIN st : StartsWith(k, "portfolio-snapshot-")}),
             <<"clear">>, FALSE, Undefined)

\* public async reset()
reset(st, outs) ==
  IF outs[1] = "fail"
  THEN Reply(st, <<"clear">>, TRUE, ConnectivityFailure)
  ELSE Reply(StoreClear(st), <<"clear">>, FALSE, Undefined)

\* the tail of removePortfolioSnapshotsByUserId: one deleteMany of the keys collected
deleteCollected(st, keys, outs) ==
  IF outs[1] = "fail"
  THEN Reply(st, <<"deleteMany">>, TRUE, ConnectivityFailure)
  ELSE Reply(StoreDeleteMany(st, keys), <<"deleteMany">>, FALSE, TRUE)

(***************************************************************************)
(* getKeys: the loop over the store's key iterator.                        *)
(***************************************************************************)
\* the test with || where the code has &&: true of every key
MatchesOrPrefix(prefix, key) ==
  (Truthy(prefix) \/ (prefix # Undefined /\ StartsWith(key, prefix.value)))
    \/ ~Truthy(prefix)
\* the test without its second alternative: no key matches an omitted prefix
MatchesNoOmitted(prefix, key) == Truthy(prefix) /\ StartsWith(key, prefix.value)

\* the test of line 51
Matches(prefix, key) ==
  (Truthy(prefix) /\ StartsWith(key, prefix.value)) \/ ~Truthy(prefix)
\* one turn of the loop: the iterator yielded key
getKeysPush(keys, prefix, key) ==
  IF Matches(prefix, key) THEN Append(keys, key) ELSE keys
\* the iterator's failure raised to the caller of getKeys
getKeysRethrow(keys) == [raised |-> TRUE, keys |-> keys]

\* the keys collected so far dropped when the iterator fails
getKeysCatchEmpty(keys) == [raised |-> FALSE, keys |-> <<>>]

\* the iterator threw: catch {} and return keys
getKeysCatch(keys) == [raised |-> FALSE, keys |-> keys]

(***************************************************************************)
(* The inputs tried.                                                       *)
(***************************************************************************)
KeyU1 == getPortfolioSnapshotKey(Undefined, "u1")
KeyU1F == getPortfolioSnapshotKey(Arr(<<FilterA>>), "u1")
KeyU12 == getPortfolioSnapshotKey(Undefined, "u12")
KeyU2 == getPortfolioSnapshotKey(Undefined, "u2")
KeyQuote == getQuoteKey("YAHOO", "AAPL")
Keys == {KeyU1, KeyU1F, KeyU12, KeyU2, KeyQuote}
Values == {"v1", "v2"}
TtlArgs == {Undefined, Num(0), Num(HealthTtl)}
PrefixArgs == {Undefined, Str(""), Str(KeyU1), Str("quote-")}
\* the store's answers to an operation's first call and to a second one, were
\* the operation to make it
Answers == [{1, 2} -> Outcomes]

(***************************************************************************)
(* History kept beside the program's state.                                *)
(***************************************************************************)
\* what get and the iterator can see at time t: the live keys with their values
Visible(st, t) == [k \in Live(st, t) |-> st[k].value]
\* reset: a reset() has completed before; wasSet: the entry cleared had been set
NoWrite == [kind |-> "none", reset |-> FALSE]
WroteSet(value, ttl, t, prev) ==
  [kind |-> "set", value |-> value, ttl |-> ttl, at |-> t, reset |-> prev.reset]
WroteDeleted(prev) == [kind |-> "deleted", reset |-> prev.reset]
WroteCleared(prev) ==
  [kind |-> "cleared", reset |-> TRUE,
   wasSet |-> prev.kind = "set" \/ (prev.kind = "cleared" /\ prev.wasSet)]
\* a reset() has completed and no set() has since
AfterReset == \A k \in DOMAIN wrote : wrote[k].reset /\ wrote[k].kind # "set"
\* a scan in progress is disturbed when what it can see changes under it
Disturbed(sc, st2, t2) ==
  IF sc.pc # "idle" /\ Visible(st2, t2) # Visible(store, now)
  THEN [sc EXCEPT !.disturbed = TRUE] ELSE sc
Idle == [pc |-> "idle"]
\* no operation has finished since the last one was started
NothingYet == [op |-> "none"]
Observed(op, arg, r, outs) ==
  [op |-> op, arg |-> arg, raised |-> r.raised, result |-> r.result,
   calls |-> r.calls, storeFailed |-> outs[1] = "fail", t |-> now]

(***************************************************************************)
(* Data-path actions: a caller runs one operation against the store.       *)
(***************************************************************************)
Get(key) ==
  /\ \E outs \in Answers :
       LET r == get(store, key, now, outs) IN
       /\ store' = r.store
       /\ last' = Observed("get", [key |-> key], r, outs)
  /\ UNCHANGED <<now, wrote, ops, scan, hc>>

Set(key, value, ttl) ==
  /\ ops < MaxOps
  /\ \E outs \in Answers :
       LET r == set(store, key, value, ttl, now, outs) IN
       /\ store' = r.store
       /\ last' = Observed("set", [key |-> key, value |-> value, ttl |-> ttl,
                                     passed |-> setTtl(ttl), over |-> wrote[key]],
                            r, outs)
       /\ wrote' = IF r.raised THEN wrote
                   ELSE [wrote EXCEPT ![key] = WroteSet(value, ttl, now, @)]
       /\ scan' = Disturbed(scan, r.store, now)
  /\ ops' = ops + 1
  /\ UNCHANGED <<now, hc>>

Remove(key) ==
  /\ ops < MaxOps
  /\ \E outs \in Answers :
       LET r == remove(store, key, now, outs) IN
       /\ store' = r.store
       /\ last' = Observed("remove", [key |-> key, over |-> wrote[key],
                                        before |-> Visible(store, now)],
                            r, outs)
       /\ wrote' = IF r.raised THEN wrote
                   ELSE [wrote EXCEPT ![key] = WroteDeleted(@)]
       /\ scan' = Disturbed(scan, r.store, now)
  /\ ops' = ops + 1
  /\ UNCHANGED <<now, hc>>

Reset ==
  /\ ops < MaxOps
  /\ \E outs \in Answers :
       LET r == reset(store, outs) IN
       /\ store' = r.store
       /\ last' = Observed("reset", [none |-> TRUE], r, outs)
       /\ wrote' = IF r.raised THEN wrote
                   ELSE [k \in Keys |-> WroteCleared(wrote[k])]
       /\ scan' = Disturbed(scan, r.store, now)
  /\ ops' = ops + 1
  /\ UNCHANGED <<now, hc>>

(***************************************************************************)
(* Key derivation: synchronous, with no call to the store.                 *)
(***************************************************************************)
DataSources == {"YAHOO", "COINGECKO"}
Symbols == {"AAPL", "BTC"}
NoCall == [none |-> TRUE]
\* prev: the call of the same function made just before, if any
KeyObserved(op, arg, result) ==
  [op |-> op, arg |-> arg, raised |-> FALSE, result |-> Str(result),
   calls |-> <<>>, storeFailed |-> FALSE, t |-> now, before |-> store,
   prev |-> IF last.op = op THEN [arg |-> last.arg, result |-> last.result]
            ELSE NoCall]

GetPortfolioSnapshotKey(filters, userId) ==
  /\ last' = KeyObserved("getPortfolioSnapshotKey",
                         [filters |-> filters, userId |-> userId],
                         getPortfolioSnapshotKey(filters, userId))
  /\ UNCHANGED <<store, now, wrote, ops, scan, hc>>

GetQuoteKey(dataSource, symbol) ==
  /\ last' = KeyObserved("getQuoteKey",
                         [dataSource |-> dataSource, symbol |-> symbol],
                         getQuoteKey(dataSource, symbol))
  /\ UNCHANGED <<store, now, wrote, ops, scan, hc>>

(***************************************************************************)
(* getKeys and removePortfolioSnapshotsByUserId: the scan runs one         *)
(* iterator step at a time, other callers in between.                      *)
(***************************************************************************)
Scanning(op, arg, prefix) ==
  [pc |-> "iterating", op |-> op, arg |-> arg, prefix |-> prefix,
   yielded |-> {}, keys |-> <<>>, faulted |-> FALSE, disturbed |-> FALSE,
   before |-> Visible(store, now), afterReset |-> AfterReset]
ScanObserved(raised, result, calls, storeFailed, keys, faulted) ==
  [op |-> scan.op, arg |-> scan.arg, raised |-> raised, result |-> result,
   calls |-> calls, storeFailed |-> storeFailed, t |-> now,
   prefix |-> scan.prefix, yielded |-> scan.yielded, keys |-> keys,
   faulted |-> faulted, disturbed |-> scan.disturbed, before |-> scan.before,
   afterReset |-> scan.afterReset]

\* getKeys(aPrefix) is called: keys = [], the iterator is opened
GetKeysStart(aPrefix) ==
  /\ scan.pc = "idle"
  /\ ops < MaxOps
  /\ ops' = ops + 1
  /\ scan' = Scanning("getKeys", [aPrefix |-> aPrefix], aPrefix)
  /\ last' = NothingYet
  /\ UNCHANGED <<store, now, wrote, hc>>

\* removePortfolioSnapshotsByUserId({ userId }) is called and calls getKeys
RemoveSnapshotsStart(userId) ==
  /\ scan.pc = "idle"
  /\ ops < MaxOps
  /\ ops' = ops + 1
  /\ scan' = Scanning("removePortfolioSnapshotsByUserId", [userId |-> userId],
                      Str(getPortfolioSnapshotKey(Undefined, userId)))
  /\ last' = NothingYet
  /\ UNCHANGED <<store, now, wrote, hc>>

\* the iterator yields a live key it has not yielded yet
IterYield(key) ==
  /\ scan.pc = "iterating"
  /\ key \in Live(store, now) \ scan.yielded
  /\ scan' = [scan EXCEPT !.yielded = @ \cup {key},
                          !.keys = getKeysPush(@, scan.prefix, key)]
  /\ UNCHANGED <<store, now, last, wrote, ops, hc>>

\* getKeys returns (or raises) to its caller
GetKeysReturn(res, faulted) ==
  IF res.raised
  THEN /\ last' = ScanObserved(TRUE, ConnectivityFailure, <<"iterator">>, FALSE,
                               res.keys, faulted)
       /\ scan' = Idle
  ELSE IF scan.op = "getKeys"
  THEN /\ last' = ScanObserved(FALSE, Arr(res.keys), <<"iterator">>, FALSE,
                               res.keys, faulted)
       /\ scan' = Idle
  ELSE /\ scan' = [scan EXCEPT !.pc = "deleting", !.keys = res.keys,
                               !.faulted = faulted]
       /\ last' = last

\* the iterator is exhausted: the loop ends
IterDone ==
  /\ scan.pc = "iterating"
  /\ Live(store, now) \ scan.yielded = {}
  /\ GetKeysReturn([raised |-> FALSE, keys |-> scan.keys], FALSE)
  /\ UNCHANGED <<store, now, wrote, ops, hc>>

\* the iterator throws, before or after yielding keys
IterFault ==
  /\ scan.pc = "iterating"
  /\ GetKeysReturn(getKeysCatch(scan.keys), TRUE)
  /\ UNCHANGED <<store, now, wrote, ops, hc>>

\* return this.client.deleteMany(keys)
DeleteMany ==
  /\ scan.pc = "deleting"
  /\ \E outs \in Answers :
       LET r == deleteCollected(store, scan.keys, outs) IN
       /\ store' = r.store
       /\ last' = ScanObserved(r.raised, r.result, <<"iterator">> \o r.calls,
                               outs[1] = "fail", scan.keys, scan.faulted)
       /\ wrote' = IF r.raised THEN wrote
                   ELSE [k \in Keys |->
                           IF \E i \in DOMAIN scan.keys : scan.keys[i] = k
                           THEN WroteDeleted(wrote[k]) ELSE wrote[k]]
  /\ scan' = Idle
  /\ UNCHANGED <<now, ops, hc>>

(***************************************************************************)
(* Time.                                                                   *)
(***************************************************************************)
\* a timer that is due fires before the clock moves on
TimerDue == \E h \in DOMAIN hc : hc[h].timer = "armed" /\ now >= hc[h].deadline
Tick ==
  /\ now < MaxTicks * TickMs
  /\ ~TimerDue
  /\ now' = now + TickMs
  /\ scan' = Disturbed(scan, store, now + TickMs)
  /\ UNCHANGED <<store, last, wrote, ops, hc>>

\* the store purges an expired entry it still holds
StorePurge(key) ==
  /\ key \in DOMAIN store /\ Expired(store[key], now)
  /\ store' = Without(store, {key})
  /\ UNCHANGED <<now, last, wrote, ops, scan, hc>>

(***************************************************************************)
(* The service after construction, over an empty store.                    *)
(***************************************************************************)
HealthIdle == [main |-> "idle", timer |-> "off"]
\* the store's contents when the service is constructed: entries set earlier,
\* without expiry
Preloaded(ks) == [k \in ks |-> [value |-> "v0"]]
InitStores == {Preloaded({}), Preloaded({KeyU1, KeyU1F, KeyU2}), Preloaded(Keys)}
InitWith(stores) ==
  /\ store \in stores
  /\ now = 0
  /\ last = NothingYet
  /\ wrote = [k \in Keys |-> IF k \in DOMAIN store
                              THEN WroteSet(store[k].value, Num(0), 0, NoWrite)
                              ELSE NoWrite]
  /\ ops = 0
  /\ scan = Idle
  /\ hc = [h \in 1..MaxHealthCalls |-> HealthIdle]

(***************************************************************************)
(* Spec: the data path and the scan, at one instant (the clock stands).    *)
(***************************************************************************)
CacheKeys == {KeyU1, KeyQuote}
Init == InitWith(InitStores)
Next ==
  \/ \E key \in CacheKeys : Get(key)
  \/ \E key \in CacheKeys : Set(key, "v1", Undefined)
  \/ \E key \in CacheKeys : Remove(key)
  \/ Reset
  \/ \E aPrefix \in PrefixArgs : GetKeysStart(aPrefix)
  \/ \E userId \in UserIds : RemoveSnapshotsStart(userId)
  \/ \E key \in Keys : IterYield(key)
  \/ IterDone
  \/ IterFault
  \/ DeleteMany

Spec == Init /\ [][Next]_vars

(***************************************************************************)
(* SpecKeys: key derivation, among writes to the store.                    *)
(***************************************************************************)
NextKeys ==
  \/ \E filters \in FilterArgs, userId \in UserIds :
       GetPortfolioSnapshotKey(filters, userId)
  \/ \E dataSource \in DataSources, symbol \in Symbols :
       GetQuoteKey(dataSource, symbol)
  \/ \E key \in CacheKeys : Set(key, "v1", Undefined)
  \/ Reset

SpecKeys == Init /\ [][NextKeys]_vars

(***************************************************************************)
(* SpecTtl: the data path and the bulk delete while the clock runs.         *)
(***************************************************************************)
TtlKeys == {KeyU1}
InitTtl == InitWith({Preloaded({})})
NextTtl ==
  \/ \E key \in TtlKeys : Get(key)
  \/ \E key \in TtlKeys, value \in Values, ttl \in TtlArgs : Set(key, value, ttl)
  \/ Set(KeyQuote, "v1", Undefined)
  \/ \E key \in TtlKeys : Remove(key)
  \/ Reset
  \/ \E userId \in {"u1"} : RemoveSnapshotsStart(userId)
  \/ \E key \in TtlKeys : IterYield(key)
  \/ IterDone
  \/ IterFault
  \/ DeleteMany
  \/ Tick
  \/ \E key \in TtlKeys \cup {KeyQuote} : StorePurge(key)

SpecTtl == InitTtl /\ [][NextTtl]_vars

(***************************************************************************)
(* isHealthy(): a probe task (set, then get, then compare) raced against a *)
(* timer, then the cleanup delete.  A store call is issued, later served   *)
(* by the store (in any order among the calls in flight), and its answer   *)
(* then resumes the task that awaits it; the store may also never answer.  *)
(***************************************************************************)
\* the finally block left out
healthCleanupSkipped(st, t, outs) == Reply(st, <<>>, FALSE, TRUE)

\* this.remove(testKey) of the finally block
healthCleanup(st, t, outs) == remove(st, testKey, t, outs)

\* the comparison of line 94 inverted
probeCheckInverted(result, testValue) ==
  IF result = Str(testValue) THEN "rejected" ELSE "resolved"

\* lines 92-96: the probe rejects on a read-back that differs from testValue
probeCheck(result, testValue) ==
  IF result # Str(testValue) THEN "rejected" ELSE "resolved"

\* true returned on the catch path as well
raceVerdictAlways(first) == TRUE

\* try { await Promise.race([...]); return true } catch { return false }
raceVerdict(first) == first = "resolved"

\* the cleanup's failure left uncaught
cleanupNoCatch(verdict, cleanupReq) ==
  [raised |-> cleanupReq = "fail", value |-> verdict]

\* finally { try { await this.remove(testKey) } catch {} }: the verdict stands
cleanupOutcome(verdict, cleanupReq) == [raised |-> FALSE, value |-> verdict]

Calls == 1..MaxHealthCalls
Racing(t) ==
  [main |-> "racing", timer |-> "armed", deadline |-> t + HealthTimeout,
   testValue |-> ToString(t), probe |-> "set", probeReq |-> "pending",
   setRaised |-> FALSE, getRaised |-> FALSE, probeGot |-> Undefined,
   probeBeforeTimer |-> FALSE, race |-> "pending", cleanupReq |-> "none",
   result |-> Undefined]

\* a race that takes the outcome of whichever task settles last
SettledLast(c, first) ==
  [c EXCEPT !.race = first,
            !.main = IF c.main = "returned" THEN @ ELSE "cleanup",
            !.cleanupReq = IF c.race = "pending" THEN "pending" ELSE @]

\* the race settles with `first`: the catch/return path is taken and the
\* finally block issues the cleanup delete
Settled(c, first) ==
  IF c.race = "pending"
  THEN [c EXCEPT !.race = first, !.main = "cleanup", !.cleanupReq = "pending"]
  ELSE c

\* isHealthy() is called: testValue is taken from the clock, the probe issues
\* its set, the timer is armed
HealthStart(h) ==
  /\ hc[h].main = "idle"
  /\ hc' = [hc EXCEPT ![h] = Racing(now)]
  /\ UNCHANGED <<store, now, last, wrote, ops, scan>>

\* the store serves the probe's set: this.set(testKey, testValue, ms('1 second'))
StoreServeSet(h) ==
  /\ hc[h].main # "idle" /\ hc[h].probe = "set" /\ hc[h].probeReq = "pending"
  /\ \E outs \in Answers :
       LET r == set(store, testKey, hc[h].testValue, Num(HealthTtl), now, outs) IN
       /\ store' = r.store
       /\ hc' = [hc EXCEPT ![h].probeReq = IF r.raised THEN "fail" ELSE "ok",
                           ![h].setRaised = r.raised]
  /\ UNCHANGED <<now, last, wrote, ops, scan>>

\* the store serves the probe's get: this.get(testKey); a faulty store may
\* answer with a value that was never written
StoreServeGet(h) ==
  /\ hc[h].main # "idle" /\ hc[h].probe = "get" /\ hc[h].probeReq = "pending"
  /\ \E outs \in Answers, faulty \in BOOLEAN :
       LET r == get(store, testKey, now, outs) IN
       /\ store' = r.store
       /\ hc' = [hc EXCEPT ![h].probeReq = IF r.raised THEN "fail" ELSE "ok",
                           ![h].getRaised = r.raised,
                           ![h].probeGot = IF ~r.raised /\ faulty
                                           THEN Str("garbage") ELSE r.result]
  /\ UNCHANGED <<now, last, wrote, ops, scan>>

\* the answer to the probe's store call arrives and the probe task runs on
ProbeResume(h) ==
  /\ hc[h].main # "idle" /\ hc[h].probeReq \in {"ok", "fail"}
  /\ LET c == hc[h]
         outcome == IF c.probeReq = "fail" THEN "rejected"
                    ELSE IF c.probe = "set" THEN "get"
                    ELSE probeCheck(c.probeGot, c.testValue)
     IN  hc' = [hc EXCEPT ![h] =
                  IF outcome = "get"
                  THEN [c EXCEPT !.probe = "get", !.probeReq = "pending"]
                  ELSE Settled([c EXCEPT !.probe = outcome, !.probeReq = "none",
                                         !.probeBeforeTimer = c.timer # "fired"],
                               outcome)]
  /\ UNCHANGED <<store, now, last, wrote, ops, scan>>

\* the timer fires: it rejects with 'timeout'
TimerFire(h) ==
  /\ hc[h].timer = "armed" /\ now >= hc[h].deadline
  /\ hc' = [hc EXCEPT ![h] = Settled([hc[h] EXCEPT !.timer = "fired"], "timeout")]
  /\ UNCHANGED <<store, now, last, wrote, ops, scan>>

\* the store serves the cleanup delete
StoreServeDelete(h) ==
  /\ hc[h].main = "cleanup" /\ hc[h].cleanupReq = "pending"
  /\ \E outs \in Answers :
       LET r == healthCleanup(store, now, outs) IN
       /\ store' = r.store
       /\ hc' = [hc EXCEPT ![h].cleanupReq = IF r.raised THEN "fail" ELSE "ok"]
  /\ UNCHANGED <<now, last, wrote, ops, scan>>

\* the answer to the cleanup delete arrives and isHealthy() returns
CleanupResume(h) ==
  /\ hc[h].main = "cleanup" /\ hc[h].cleanupReq \in {"ok", "fail"}
  /\ hc' = [hc EXCEPT ![h].main = "returned",
                      ![h].result = cleanupOutcome(raceVerdict(hc[h].race),
                                                   hc[h].cleanupReq)]
  /\ UNCHANGED <<store, now, last, wrote, ops, scan>>

\* the store never answers a call in flight
StoreDropProbe(h) ==
  /\ hc[h].main # "idle" /\ hc[h].probeReq = "pending"
  /\ hc' = [hc EXCEPT ![h].probeReq = "dropped"]
  /\ UNCHANGED <<store, now, last, wrote, ops, scan>>
StoreDropCleanup(h) ==
  /\ hc[h].main = "cleanup" /\ hc[h].cleanupReq = "pending"
  /\ hc' = [hc EXCEPT ![h].cleanupReq = "dropped"]
  /\ UNCHANGED <<store, now, last, wrote, ops, scan>>

(***************************************************************************)
(* SpecHealth: one isHealthy() call against the store, the clock running.  *)
(***************************************************************************)
SingleCall == {1}
InitHealth == InitWith({Preloaded({})})
NextHealth ==
  \/ \E h \in SingleCall : HealthStart(h)
  \/ \E h \in SingleCall : StoreServeSet(h)
  \/ \E h \in SingleCall : StoreServeGet(h)
  \/ \E h \in SingleCall : ProbeResume(h)
  \/ \E h \in SingleCall : TimerFire(h)
  \/ \E h \in SingleCall : StoreServeDelete(h)
  \/ \E h \in SingleCall : CleanupResume(h)
  \/ \E h \in SingleCall : StoreDropProbe(h)
  \/ \E h \in SingleCall : StoreDropCleanup(h)
  \/ Tick

SpecHealth == InitHealth /\ [][NextHealth]_vars

(***************************************************************************)
(* SpecConcurrent: isHealthy() calls that overlap, all on the one sentinel *)
(* key, their store calls served in any order.                             *)
(***************************************************************************)
NextConcurrent ==
  \/ \E h \in Calls : HealthStart(h)
  \/ \E h \in Calls : StoreServeSet(h)
  \/ \E h \in Calls : StoreServeGet(h)
  \/ \E h \in Calls : ProbeResume(h)
  \/ \E h \in Calls : TimerFire(h)
  \/ \E h \in Calls : StoreServeDelete(h)
  \/ \E h \in Calls : CleanupResume(h)
  \/ \E h \in Calls : StoreDropProbe(h)
  \/ \E h \in Calls : StoreDropCleanup(h)
  \/ Tick

SpecConcurrent == InitHealth /\ [][NextConcurrent]_vars

(***************************************************************************)
(* The claims.                                                             *)
(***************************************************************************)
KeySet(seq) == {seq[i] : i \in DOMAIN seq}
NoDuplicates(seq) == Cardinality(KeySet(seq)) = Len(seq)
BulkDone == last.op = "removePortfolioSnapshotsByUserId"
GetKeysDone == last.op = "getKeys"

Returned(h) == hc[h].main = "returned"
ReturnedValue(b) == [raised |-> FALSE, value |-> b]
\* the probe ran to its end with no failure and read back what it wrote,
\* all before the timer fired
ProbeSucceededInTime(h) ==
  /\ hc[h].probe \in {"resolved", "rejected"}
  /\ hc[h].probeBeforeTimer
  /\ ~hc[h].setRaised /\ ~hc[h].getRaised
  /\ hc[h].probeGot = Str(hc[h].testValue)

C1_ReturnStep(h) == StoreServeDelete(h) \/ CleanupResume(h)
\* C1: when the probe has not settled by the time the timer fires, isHealthy()
\* returns false, and it does return: from the timer's firing on the call is
\* never blocked for good, whatever the store does (a store that never answers
\* the cleanup delete included).
C1_BoundedHealthCheck ==
  \A h \in Calls :
    (hc[h].main # "idle" /\ hc[h].race = "timeout") =>
      \/ Returned(h) /\ hc[h].result = ReturnedValue(FALSE)
      \/ hc[h].main = "cleanup" /\ ENABLED C1_ReturnStep(h)

\* C2: isHealthy() returns true if and only if the probe completes before the
\* timer fires, neither set nor get raised, and the value read back equals the
\* value written; a mismatch (an absent result included), a failure raised by
\* set or get, or the timer firing first each make it return false.
C2_HealthVerdict ==
  \A h \in Calls :
    Returned(h) =>
      /\ hc[h].result \in {ReturnedValue(TRUE), ReturnedValue(FALSE)}
      /\ (hc[h].result = ReturnedValue(TRUE)) <=> ProbeSucceededInTime(h)
C2_Witness ==
  \E h \in Calls :
    /\ Returned(h) /\ hc[h].result = ReturnedValue(FALSE)
    /\ hc[h].probeBeforeTimer /\ ~hc[h].setRaised /\ ~hc[h].getRaised
    /\ hc[h].probeGot = Undefined

\* C3: a single isHealthy() call against a store that answers every call in
\* time and without failure, and returns on get what was set, returns true,
\* and the sentinel key is absent from the store once the call has returned.
C3_SuccessLeavesNoTrace ==
  \A h \in Calls :
    (Returned(h) /\ ProbeSucceededInTime(h) /\ hc[h].cleanupReq = "ok") =>
      /\ hc[h].result = ReturnedValue(TRUE)
      /\ testKey \notin Live(store, now)
C3_Witness ==
  \E h \in Calls :
    /\ Returned(h) /\ ProbeSucceededInTime(h) /\ hc[h].cleanupReq = "ok"
    /\ hc[h].result = ReturnedValue(TRUE)
    /\ testKey \notin DOMAIN store

\* C4: isHealthy() never raises: the caller receives a boolean on every path,
\* and a failing cleanup delete is swallowed and leaves the boolean the race
\* determined (a successful probe followed by a failing cleanup returns true).
C4_NeverRaises ==
  \A h \in Calls :
    Returned(h) =>
      /\ ~hc[h].result.raised
      /\ hc[h].result.value \in BOOLEAN
      /\ hc[h].cleanupReq = "fail" =>
           (hc[h].result.value <=> (hc[h].race = "resolved"))
C4_Witness ==
  \E h \in Calls :
    /\ Returned(h) /\ hc[h].cleanupReq = "fail"
    /\ hc[h].race = "resolved"
    /\ hc[h].result = ReturnedValue(TRUE)

\* C5: when no store call fails and nothing else changes the store during the
\* call, after removePortfolioSnapshotsByUserId(u) every key that started with
\* portfolio-snapshot-{u} before the call is absent and every other key is
\* still present with its value unchanged.
C5_NamespaceInvalidation ==
  (BulkDone /\ ~last.raised /\ ~last.faulted /\ ~last.disturbed) =>
    \A k \in DOMAIN last.before :
      IF StartsWith(k, "portfolio-snapshot-" \o last.arg.userId)
      THEN k \notin Live(store, last.t)
      ELSE k \in Live(store, last.t) /\ store[k].value = last.before[k]
C5_Witness ==
  /\ BulkDone /\ ~last.raised /\ ~last.faulted /\ ~last.disturbed
  /\ last.arg.userId = "u1"
  /\ {KeyU1, KeyU1F, KeyU2} \subseteq DOMAIN last.before
  /\ KeyU1 \notin DOMAIN store /\ KeyU1F \notin DOMAIN store
  /\ KeyU2 \in DOMAIN store

C8_Expected(aPrefix, content) ==
  IF aPrefix = Undefined THEN DOMAIN content
  ELSE {k \in DOMAIN content : StartsWith(k, aPrefix.value)}
\* C8: when the scan does not fail (and the store is not changed under it),
\* getKeys(prefix) returns exactly the store's keys that start with prefix, and
\* getKeys() with the prefix omitted returns every key of the store.
C8_PrefixEnumeration ==
  (GetKeysDone /\ ~last.faulted /\ ~last.disturbed) =>
    /\ ~last.raised
    /\ KeySet(last.result.items) = C8_Expected(last.arg.aPrefix, last.before)
    /\ NoDuplicates(last.result.items)
C8_Witness ==
  /\ GetKeysDone /\ ~last.faulted /\ ~last.disturbed /\ ~last.raised
  /\ last.arg.aPrefix = Str(KeyU1)
  /\ KeySet(last.result.items) = {KeyU1, KeyU1F, KeyU12}
  /\ KeyU2 \in DOMAIN last.before /\ KeyQuote \in DOMAIN last.before

\* C9: when the key enumeration fails, after yielding some keys or none,
\* getKeys(prefix) does not raise and returns exactly the prefix-matching keys
\* yielded before the failure, a subset of the fault-free result.
C9_SwallowedIterationFault ==
  (GetKeysDone /\ last.faulted) =>
    /\ ~last.raised
    /\ KeySet(last.result.items) =
         C8_Expected(last.arg.aPrefix, [k \in last.yielded |-> TRUE])
    /\ ~last.disturbed =>
         KeySet(last.result.items) \subseteq C8_Expected(last.arg.aPrefix, last.before)
C9_Witness ==
  /\ GetKeysDone /\ last.faulted /\ ~last.raised /\ ~last.disturbed
  /\ last.arg.aPrefix = Str(KeyU1)
  /\ Len(last.result.items) = 1
  /\ Cardinality(last.yielded) = 2
  /\ Cardinality(C8_Expected(last.arg.aPrefix, last.before)) = 3

C10_StoreCalls(op) ==
  IF op = "get" THEN <<"get">>
  ELSE IF op = "set" THEN <<"set">>
  ELSE IF op = "remove" THEN <<"delete">>
  ELSE IF op = "reset" THEN <<"clear">>
  ELSE <<"iterator", "deleteMany">>
\* C10: a connectivity failure raised by the store's get, set, delete,
\* deleteMany or clear is raised unchanged by get, set, remove,
\* removePortfolioSnapshotsByUserId or reset, each of which issues that store
\* call exactly once; get of a missing key returns undefined and does not raise.
C10_FailurePropagation ==
  (last.op \in {"get", "set", "remove", "reset", "removePortfolioSnapshotsByUserId"}) =>
    /\ last.calls = C10_StoreCalls(last.op)
    /\ last.storeFailed => last.raised /\ last.result = ConnectivityFailure
    /\ (last.op = "get" /\ ~last.storeFailed /\ last.arg.key \notin Live(store, last.t))
         => ~last.raised /\ last.result = Undefined
C10_Witness ==
  /\ BulkDone /\ last.storeFailed /\ last.raised
  /\ last.result = ConnectivityFailure
  /\ Len(last.keys) = 2

\* C7: after reset() completes, get(k) returns undefined for every key set
\* before the reset and not set again after it, and getKeys() yields no key.
C7_FullReset ==
  /\ (last.op = "get" /\ ~last.raised /\ wrote[last.arg.key].kind = "cleared")
       => last.result = Undefined
  /\ (GetKeysDone /\ ~last.raised /\ last.afterReset /\ ~last.disturbed)
       => last.result = Arr(<<>>)
C7_Witness ==
  /\ last.op = "get" /\ ~last.raised
  /\ wrote[last.arg.key].kind = "cleared" /\ wrote[last.arg.key].wasSet
  /\ last.result = Undefined

C6_TtlElapsed(w, t) ==
  LET ttl == IF w.ttl = Undefined THEN CACHE_TTL ELSE w.ttl.value IN
  ttl # 0 /\ t - w.at >= ttl
\* C6: after set(k, v) completes, get(k) returns exactly v as long as no
\* delete, bulk delete, clear or later set has touched k and k's ttl (the one
\* given, else the configured default) has not elapsed.
C6_RoundTrip ==
  (last.op = "get" /\ ~last.raised /\ wrote[last.arg.key].kind = "set"
     /\ ~C6_TtlElapsed(wrote[last.arg.key], last.t))
    => last.result = Str(wrote[last.arg.key].value)
C6_Witness ==
  /\ last.op = "get" /\ ~last.raised /\ wrote[last.arg.key].kind = "set"
  /\ wrote[last.arg.key].ttl = Undefined
  /\ last.t = wrote[last.arg.key].at + TickMs
  /\ last.result = Str("v2")

C11_Ttl(ttl) == IF ttl = Undefined THEN CACHE_TTL ELSE ttl.value
\* C11: after set(k, v1, t1) followed by set(k, v2, t2), k has one entry, its
\* value is v2, and it expires by t2 counted from the second set alone: the
\* expiration the first set installed no longer removes it.
C11_OverwriteResetsExpiration ==
  (last.op = "set" /\ ~last.raised /\ last.arg.over.kind = "set") =>
    LET k == last.arg.key
        ttl == C11_Ttl(last.arg.ttl)
    IN  /\ (k \in Live(store, now)) <=> (ttl = 0 \/ now <= last.t + ttl)
        /\ k \in Live(store, now) => store[k].value = last.arg.value
        /\ k \in DOMAIN store =>
             IF ttl = 0 THEN "expires" \notin DOMAIN store[k]
             ELSE "expires" \in DOMAIN store[k] /\ store[k].expires = last.t + ttl
C11_Witness ==
  /\ last.op = "set" /\ ~last.raised /\ last.arg.over.kind = "set"
  /\ last.arg.over.value = "v1" /\ last.arg.over.ttl = Num(HealthTtl)
  /\ last.arg.value = "v2" /\ last.arg.ttl = Undefined
  /\ last.t > last.arg.over.at
  /\ now > last.arg.over.at + HealthTtl
  /\ last.arg.key \in Live(store, now)
  /\ store[last.arg.key].value = "v2"

\* what "elapsed" means at the store: the clock is past the entry's expiry
\* instant; a ttl of 0 sets no expiry
C12_TtlElapsed(w, t) ==
  LET ttl == IF w.ttl = Undefined THEN CACHE_TTL ELSE w.ttl.value IN
  ttl # 0 /\ t > w.at + ttl
\* C12: once the ttl of a key set by set(k, v, ttl) has elapsed with no set of
\* k in between, every later get(k) returns undefined, whether the store still
\* holds the entry or has purged it.
C12_ExpiredMeansAbsent ==
  (last.op = "get" /\ ~last.raised /\ wrote[last.arg.key].kind = "set"
     /\ C12_TtlElapsed(wrote[last.arg.key], last.t))
    => last.result = Undefined
C12_Witness ==
  /\ last.op = "get" /\ ~last.raised /\ wrote[last.arg.key].kind = "set"
  /\ C12_TtlElapsed(wrote[last.arg.key], last.t)
  /\ last.result = Undefined
  /\ last.arg.key \in DOMAIN store

\* C13: set(k, v) with ttl omitted passes CACHE_TTL to the store as the entry's
\* ttl; set(k, v, ttl) with a ttl supplied (0 included) passes that ttl
\* unchanged and never the default.
C13_DefaultTtlInjection ==
  (last.op = "set") =>
    LET k == last.arg.key
        ttl == last.arg.ttl
    IN  /\ ttl = Undefined => last.arg.passed = Num(CACHE_TTL)
        /\ ttl # Undefined => last.arg.passed = ttl
        /\ (~last.raised /\ k \in DOMAIN store) =>
             IF ttl = Undefined
             THEN "expires" \in DOMAIN store[k]
                  /\ store[k].expires = last.t + CACHE_TTL
             ELSE IF ttl.value = 0 THEN "expires" \notin DOMAIN store[k]
             ELSE "expires" \in DOMAIN store[k]
                  /\ store[k].expires = last.t + ttl.value
C13_Witness ==
  /\ last.op = "set" /\ ~last.raised
  /\ last.arg.ttl = Num(0) /\ last.arg.passed = Num(0)
  /\ last.arg.over.kind = "set" /\ last.arg.over.ttl = Undefined
  /\ last.arg.key \in DOMAIN store
  /\ "expires" \notin DOMAIN store[last.arg.key]

\* C14: remove(k) of an absent key does not raise and leaves the store as it
\* was; remove(k) twice leaves the store as remove(k) once does: k absent,
\* every other key unchanged.
C14_IdempotentDelete ==
  (last.op = "remove" /\ ~last.storeFailed) =>
    LET k == last.arg.key
        before == last.arg.before
        after == Visible(store, now)
    IN  /\ ~last.raised
        /\ after = [j \in DOMAIN before \ {k} |-> before[j]]
        /\ k \notin DOMAIN before => after = before
        /\ last.arg.over.kind = "deleted" => after = before
C14_Witness ==
  /\ last.op = "remove" /\ ~last.storeFailed /\ ~last.raised
  /\ last.arg.over.kind = "deleted"
  /\ last.arg.key \notin DOMAIN last.arg.before
  /\ Visible(store, now) = last.arg.before
  /\ KeyU2 \in DOMAIN store

C15_NoFilters(filters) ==
  IF filters = Undefined THEN TRUE ELSE Len(filters.items) = 0
\* what follows portfolio-snapshot-{userId}- in a key
C15_Hash(userId, key) ==
  SubSeq(key, Len("portfolio-snapshot-" \o userId) + 2, Len(key))
\* the same filters, supplied in a different order
C15_Reordered(f, g) ==
  /\ ~C15_NoFilters(f) /\ ~C15_NoFilters(g)
  /\ Len(f.items) = Len(g.items) /\ f.items # g.items
  /\ KeySet(f.items) = KeySet(g.items)
  /\ NoDuplicates(f.items)
\* C15: getPortfolioSnapshotKey returns portfolio-snapshot-{userId} when
\* filters is omitted or empty and portfolio-snapshot-{userId}-{hash} otherwise,
\* the hash a function of the filter sequence as supplied: equal inputs give
\* equal keys, the same filters in a different order give a different key.
C15_PortfolioSnapshotKey ==
  (last.op = "getPortfolioSnapshotKey") =>
    LET userId == last.arg.userId
        filters == last.arg.filters
        key == last.result.value
        base == "portfolio-snapshot-" \o userId
    IN  /\ IF C15_NoFilters(filters) THEN key = base
           ELSE StartsWith(key, base \o "-") /\ Len(key) > Len(base) + 1
        /\ "arg" \in DOMAIN last.prev =>
             /\ last.prev.arg = last.arg => last.prev.result = last.result
             /\ (~C15_NoFilters(filters) /\ last.prev.arg.filters = filters) =>
                  C15_Hash(last.prev.arg.userId, last.prev.result.value)
                    = C15_Hash(userId, key)
             /\ (C15_Reordered(last.prev.arg.filters, filters)
                   /\ last.prev.arg.userId = userId) =>
                  last.prev.result # last.result
C15_Witness ==
  /\ last.op = "getPortfolioSnapshotKey" /\ "arg" \in DOMAIN last.prev
  /\ last.prev.arg = [filters |-> Arr(<<FilterA, FilterB>>), userId |-> "u1"]
  /\ last.arg = [filters |-> Arr(<<FilterB, FilterA>>), userId |-> "u1"]
  /\ last.prev.result # last.result
  /\ StartsWith(last.result.value, "portfolio-snapshot-u1-")

\* C16: getQuoteKey({ dataSource, symbol }) returns quote-{dataSource}:{symbol},
\* the same key for the same two inputs, and makes no call to the store, which
\* it leaves as it was.
C16_QuoteKey ==
  (last.op = "getQuoteKey") =>
    /\ last.result = Str("quote-" \o last.arg.dataSource \o ":" \o last.arg.symbol)
    /\ ("arg" \in DOMAIN last.prev /\ last.prev.arg = last.arg)
         => last.prev.result = last.result
    /\ last.calls = <<>> /\ ~last.raised
    /\ store = last.before
C16_Witness ==
  /\ last.op = "getQuoteKey" /\ "arg" \in DOMAIN last.prev
  /\ last.arg = [dataSource |-> "YAHOO", symbol |-> "AAPL"]
  /\ last.prev.arg = last.arg
  /\ last.result = Str("quote-YAHOO:AAPL")
  /\ KeyQuote \in DOMAIN store /\ store[KeyQuote].value = "v1"

\* C17: when the key scan inside removePortfolioSnapshotsByUserId(u) fails
\* partway, the operation does not raise for that; it issues exactly one
\* deleteMany, of the prefix-matching keys collected before the failure, so
\* that those keys are absent afterwards, prefix-matching keys not yet reached
\* may remain, and no key lacking the prefix is deleted.
C17_BestEffortBulkInvalidation ==
  (BulkDone /\ last.faulted) =>
    LET prefix == "portfolio-snapshot-" \o last.arg.userId IN
    /\ last.calls = <<"iterator", "deleteMany">>
    /\ ~last.storeFailed => ~last.raised
    /\ KeySet(last.keys) = {k \in last.yielded : StartsWith(k, prefix)}
    /\ NoDuplicates(last.keys)
    /\ ~last.raised => \A k \in KeySet(last.keys) : k \notin Live(store, last.t)
    /\ (~last.raised /\ ~last.disturbed) =>
         \A k \in DOMAIN last.before :
           (~StartsWith(k, prefix) \/ k \notin last.yielded) =>
             k \in Live(store, last.t) /\ store[k].value = last.before[k]
C17_Witness ==
  /\ BulkDone /\ last.faulted /\ ~last.raised /\ ~last.disturbed
  /\ last.arg.userId = "u1"
  /\ last.yielded = {KeyU1, KeyU2}
  /\ last.keys = <<KeyU1>>
  /\ DOMAIN store = {KeyU1F, KeyU12, KeyU2, KeyQuote}

C19_SnapshotOf(w, k) ==
  k = getPortfolioSnapshotKey(Undefined, w)
    \/ StartsWith(k, getPortfolioSnapshotKey(Undefined, w) \o "-")
\* C19: for two distinct user ids u and w, u a leading substring of w or not,
\* removePortfolioSnapshotsByUserId(u) leaves every portfolio snapshot entry
\* of w present and unchanged.
C19_CrossUserIsolation ==
  (BulkDone /\ ~last.disturbed) =>
    \A w \in UserIds \ {last.arg.userId} :
      \A k \in DOMAIN last.before :
        C19_SnapshotOf(w, k) =>
          k \in Live(store, last.t) /\ store[k].value = last.before[k]

\* the timer fired with the probe not yet settled
C18_TimerWon(h) ==
  hc[h].main # "idle" /\ hc[h].timer = "fired" /\ ~hc[h].probeBeforeTimer
\* C18: when the timer wins, the probe task keeps running; its later
\* completion (success, mismatch or failure) does not change the false
\* isHealthy() returns and raises nothing, but its store calls still take
\* effect: the sentinel, set with its 1-second ttl, can be in the store after
\* isHealthy() has returned (the witness: the set applied after the cleanup
\* delete).
C18_UncancelledLoser ==
  \A h \in Calls :
    /\ (Returned(h) /\ C18_TimerWon(h)) => hc[h].result = ReturnedValue(FALSE)
    /\ C18_TimerWon(h) => hc[h].race = "timeout"
    /\ testKey \in DOMAIN store =>
         /\ "expires" \in DOMAIN store[testKey]
         /\ store[testKey].expires <= now + HealthTtl
C18_Witness ==
  \E h \in Calls :
    /\ Returned(h) /\ C18_TimerWon(h)
    /\ hc[h].result = ReturnedValue(FALSE)
    /\ hc[h].cleanupReq = "ok"
    /\ hc[h].probe = "resolved"
    /\ testKey \in Live(store, now)
    /\ store[testKey].value = hc[h].testValue

\* no isHealthy() call began as long ago as the sentinel's ttl: whatever the
\* store has answered, it answered promptly
C20_Prompt ==
  \A g \in Calls :
    hc[g].main # "idle" => now - (hc[g].deadline - HealthTimeout) < HealthTtl
\* the store has answered the calls of g it has answered without failure and
\* with the entry it held, and has left none unanswered for good
C20_AnsweredWell(g) ==
  hc[g].main # "idle" =>
    /\ ~hc[g].setRaised /\ ~hc[g].getRaised
    /\ hc[g].probeGot # Str("garbage")
    /\ hc[g].probeReq # "dropped"
    /\ hc[g].cleanupReq \notin {"fail", "dropped"}
\* C20: when isHealthy() calls run interleaved against a store that answers
\* every call promptly and correctly, each of them returns true: no call's set
\* or cleanup delete of the shared sentinel key makes another call's read-back
\* differ from the value that call wrote.
C20_ConcurrentHealthChecks ==
  (C20_Prompt /\ \A g \in Calls : C20_AnsweredWell(g)) =>
    \A h \in Calls :
      Returned(h) =>
        /\ hc[h].probeGot = Str(hc[h].testValue)
        /\ hc[h].result = ReturnedValue(TRUE)

====
